---- MODULE Spec2Model ----
(***************************************************************************)
(* BSHS_ES: the weather proxy (api/weather.js, a serverless handler) and   *)
(* the page controller's weather display, as state machines.               *)
(*                                                                         *)
(* Spec      the proxy handler: one invocation, cut at its three awaits    *)
(*           (fetch, weatherResponse.text(), weatherResponse.json()).      *)
(* PageSpec  the page's weather refresh and condition mapping.             *)
(***************************************************************************)
EXTENDS Integers, Sequences, FiniteSets, TLC

VARIABLES
  env,              \* process.env: a set of <<name, value>> pairs
  req,              \* the inbound request: method, Origin header, ?q= parameter
  pc,               \* where the handler is: idle, awaitFetch, awaitText, awaitJson, done
  resHeaders,       \* headers set on res so far: a set of <<name, value>> pairs
  sent,             \* the responses sent to the client, in order
  upstreamCalls,    \* the outbound fetch calls issued, in order
  weatherResponse,  \* the upstream's response head: status and ok
  upstreamBody,     \* the upstream's body text, once it has been read
  thrown,           \* the exception the catch block caught
  log,              \* console.error entries, server side
  keyReads,         \* number of reads of process.env.WEATHER_API_KEY
  condition,        \* page: condition text of the last rendered forecast
  rendered,         \* page: icon and status text in the DOM targets
  pending,          \* page: ids of the weather calls outstanding
  started,          \* page: number of weather calls started so far
  pageLog,          \* page: console entries, each a level and a text
  fallback,         \* page: the outstanding calls that fell back to the direct API call
  outcome,          \* page: how each finished call ended: <<id, "rendered" | "failed">>
  renderedBy,       \* page: id of the call whose forecast is in the DOM, 0 when none
  lastDone,         \* page: the call that finished last, and whether content was shown then
  weatherModalOpen, \* widget flag: the weather modal is open
  weatherModalClass,\* classList of the weather modal element
  chatbotOpen,      \* widget flag: the chatbot window is open
  chatbotClass,     \* classList of the chatbot window element
  bannerDismissed,  \* widget flag: the banner was dismissed
  bannerClass,      \* classList of the banner element
  bannerTimer       \* the banner's 30-minute setTimeout: idle, armed, fired

proxyVars == <<env, req, pc, resHeaders, sent, upstreamCalls, weatherResponse,
               upstreamBody, thrown, log, keyReads>>
weatherVars == <<condition, rendered, pending, started, pageLog, fallback, outcome,
                 renderedBy, lastDone>>
widgetVars == <<weatherModalOpen, weatherModalClass, chatbotOpen, chatbotClass,
                bannerDismissed, bannerClass, bannerTimer>>
pageVars == <<weatherVars, widgetVars>>
vars == <<env, req, pc, resHeaders, sent, upstreamCalls, weatherResponse,
          upstreamBody, thrown, log, keyReads,
          condition, rendered, pending, started, pageLog, fallback, outcome,
          renderedBy, lastDone,
          weatherModalOpen, weatherModalClass, chatbotOpen, chatbotClass,
          bannerDismissed, bannerClass, bannerTimer>>

----------------------------------------------------------------------------
(* JSON text is a sequence of tokens; a JSON value (of the flat-object     *)
(* subset modelled here) is a sequence of [k, v] members.                   *)

Punct(c) == [t |-> "punct", s |-> c, n |-> 0]
Str(s) == [t |-> "str", s |-> s, n |-> 0]
Num(n) == [t |-> "num", s |-> "", n |-> n]
\* a number written with a redundant fraction, such as 31.0
NumLex(n, frac) == [t |-> "num", s |-> frac, n |-> n]
WS == [t |-> "ws", s |-> " ", n |-> 0]
\* text that is not JSON at all (an HTML error page, a plain sentence)
Raw(s) == [t |-> "raw", s |-> s, n |-> 0]

Member(k, v) == [k |-> k, v |-> v]

StripWS(text) == SelectSeq(text, LAMBDA tok : tok.t # "ws")

IsValueTok(tok) == tok.t \in {"str", "num"}

\* the value a token denotes: 31.0 and 31 are the same number
ValueOf(tok) == IF tok.t = "num" THEN Num(tok.n) ELSE tok

\* { "k" : v , "k" : v ... } with the whitespace already stripped
WellFormed(toks) ==
  \/ toks = <<Punct("{"), Punct("}")>>
  \/ /\ Len(toks) >= 5
     /\ Len(toks) % 4 = 1
     /\ toks[1] = Punct("{")
     /\ \A i \in 1..((Len(toks) - 1) \div 4) :
          /\ toks[4 * i - 2].t = "str"
          /\ toks[4 * i - 1] = Punct(":")
          /\ IsValueTok(toks[4 * i])
          /\ toks[4 * i + 1] =
               IF i = (Len(toks) - 1) \div 4 THEN Punct("}") ELSE Punct(",")

\* the members as written, duplicates included
RawMembers(toks) ==
  [i \in 1..((Len(toks) - 1) \div 4) |->
     Member(toks[4 * i - 2].s, ValueOf(toks[4 * i]))]

\* a JS object keeps a key at the place of its first occurrence, with the
\* value of its last
DedupMembers(ms) ==
  LET firsts == SelectSeq([i \in 1..Len(ms) |-> i],
                          LAMBDA i : \A j \in 1..(i - 1) : ms[j].k # ms[i].k)
      lastOf(k) == CHOOSE i \in 1..Len(ms) :
                     /\ ms[i].k = k
                     /\ \A j \in (i + 1)..Len(ms) : ms[j].k # k
  IN [x \in 1..Len(firsts) |-> Member(ms[firsts[x]].k, ms[lastOf(ms[firsts[x]].k)].v)]

\* JSON.parse: the value, or a SyntaxError
JsonParse(text) ==
  LET toks == StripWS(text)
  IN IF WellFormed(toks)
       THEN [ok |-> TRUE,
             value |-> IF Len(toks) = 2 THEN <<>> ELSE DedupMembers(RawMembers(toks))]
       ELSE [ok |-> FALSE, value |-> <<>>]

RECURSIVE StringifyMembers(_)
StringifyMembers(ms) ==
  IF Len(ms) = 0 THEN <<>>
  ELSE <<Str(ms[1].k), Punct(":"), ms[1].v>>
         \o (IF Len(ms) = 1 THEN <<>> ELSE <<Punct(",")>>)
         \o StringifyMembers(Tail(ms))

\* JSON.stringify: compact, no whitespace
JsonStringify(value) == <<Punct("{")>> \o StringifyMembers(value) \o <<Punct("}")>>

----------------------------------------------------------------------------
(* The proxy's environment: what a request, the configuration and the      *)
(* upstream can be.                                                         *)

Methods == {"GET", "OPTIONS", "POST", "PUT", "DELETE", "PATCH", "HEAD"}

AllowedOrigin == "https://bshs-es.vercel.app"
Origins == {AllowedOrigin, "https://evil.example"}

\* text is a sequence of chunks, the characters that URL-encoding touches
\* standing alone
Location == <<"Balangkayan", ",", "Eastern", " ", "Samar", ",", "Philippines">>
Queries == {<<>>, <<"Manila">>}

\* process.env with the key unset, set to the empty string, or set
Envs == {{}, {<<"WEATHER_API_KEY", "">>},
         {<<"WEATHER_API_KEY", "key-one">>}, {<<"WEATHER_API_KEY", "key-two">>}}

UpstreamStatuses == {200, 201, 400, 401, 403, 429, 500, 503}

ForecastCompact ==
  <<Punct("{"), Str("text"), Punct(":"), Str("Partly cloudy"), Punct(","),
    Str("temp_c"), Punct(":"), Num(31), Punct("}")>>
ForecastSpaced ==
  <<Punct("{"), WS, Str("text"), Punct(":"), WS, Str("Sunny"), Punct(","), WS,
    Str("temp_c"), Punct(":"), WS, Num(31), WS, Punct("}")>>
ForecastFraction ==
  <<Punct("{"), Str("temp_c"), Punct(":"), NumLex(31, ".0"), Punct("}")>>
ForecastDuplicate ==
  <<Punct("{"), Str("temp_c"), Punct(":"), Num(30), Punct(","),
    Str("text"), Punct(":"), Str("Sunny"), Punct(","),
    Str("temp_c"), Punct(":"), Num(31), Punct("}")>>
EmptyObject == <<Punct("{"), Punct("}")>>
ProviderError ==
  <<Punct("{"), Str("code"), Punct(":"), Num(2008), Punct(","),
    Str("message"), Punct(":"), Str("API key has been disabled."), Punct("}")>>
HtmlError == <<Raw("<html>502 Bad Gateway</html>")>>
Truncated == <<Punct("{"), Str("text"), Punct(":")>>
EmptyText == <<>>

UpstreamBodies == {ForecastCompact, ForecastSpaced, ForecastFraction,
                   ForecastDuplicate, EmptyObject, ProviderError, HtmlError,
                   Truncated, EmptyText}

NoError == [name |-> "", message |-> "", stack |-> ""]
NetworkErrors ==
  {[name |-> "TypeError", message |-> "fetch failed",
    stack |-> "TypeError: fetch failed at node:internal/deps/undici"],
   [name |-> "Error", message |-> "read ECONNRESET",
    stack |-> "Error: read ECONNRESET at TLSWrap.onStreamRead"]}
SyntaxError ==
  [name |-> "SyntaxError", message |-> "Unexpected end of JSON input",
   stack |-> "SyntaxError: Unexpected end of JSON input at JSON.parse"]

\* new Date().toISOString()
Timestamps == {"2025-10-19T08:00:00.000Z", "2025-10-19T08:00:01.000Z"}

----------------------------------------------------------------------------
(* The handler of api/weather.js.                                           *)

SetHeader(h, name, value) == {p \in h : p[1] # name} \cup {<<name, value>>}

\* process.env.NAME: undefined when unset
ReadEnv(e, name) ==
  IF \E p \in e : p[1] = name
    THEN [defined |-> TRUE, s |-> (CHOOSE p \in e : p[1] = name)[2]]
    ELSE [defined |-> FALSE, s |-> ""]

\* mutant: only an unset key counts as missing, the empty string passes
Falsy_UnsetOnly(v) == ~v.defined

\* !apiKey
Falsy(v) == ~v.defined \/ v.s = ""

\* mutant: the allowed origin is echoed from the request
CorsHeaders_EchoOrigin(r) ==
  {<<"Access-Control-Allow-Origin", r.origin>>,
   <<"Access-Control-Allow-Methods", "GET, OPTIONS">>,
   <<"Access-Control-Allow-Headers", "Content-Type">>}

\* res.setHeader x 3
CorsHeaders(r) ==
  SetHeader(SetHeader(SetHeader({},
    "Access-Control-Allow-Origin", AllowedOrigin),
    "Access-Control-Allow-Methods", "GET, OPTIONS"),
    "Access-Control-Allow-Headers", "Content-Type")

\* mutant: the method is compared in the wrong case
IsPreflight_LowerCase(r) == r.method = "options"

IsPreflight(r) == r.method = "OPTIONS"

\* mutant: POST is let through as well
MethodAllowed_AlsoPost(r) == r.method \in {"GET", "POST"}

MethodAllowed(r) == r.method = "GET"

\* res.status(s).end()
EndResponse(status, h) ==
  [status |-> status, hasBody |-> FALSE, body |-> <<>>, headers |-> h]

\* res.status(s).json(value): the body goes out as JsonStringify(value)
JsonResponse(status, value, h) ==
  [status |-> status, hasBody |-> TRUE, body |-> value, headers |-> h]

MethodNotAllowedBody ==
  <<Member("error", Str("Method not allowed")),
    Member("message", Str("Only GET requests are supported"))>>

NotConfiguredBody ==
  <<Member("error", Str("Server configuration error")),
    Member("message", Str("Weather service is not properly configured"))>>

\* mutant: the upstream's error text is forwarded in the body
UpstreamErrorBody_Leaky(status, errorText) ==
  <<Member("error", Str("Weather API error")),
    Member("message", Str("Unable to fetch weather data from provider")),
    Member("status", Num(status))>>
  \o [i \in 1..Len(SelectSeq(errorText, LAMBDA tok : tok.t \in {"str", "raw"})) |->
        Member("details", SelectSeq(errorText, LAMBDA tok : tok.t \in {"str", "raw"})[i])]

UpstreamErrorBody(status, errorText) ==
  <<Member("error", Str("Weather API error")),
    Member("message", Str("Unable to fetch weather data from provider")),
    Member("status", Num(status))>>

\* mutant: the exception's message is forwarded in the body
UnavailableBody_Leaky(error) ==
  <<Member("error", Str("Failed to fetch weather data")),
    Member("message", Str(error.message))>>

UnavailableBody(error) ==
  <<Member("error", Str("Failed to fetch weather data")),
    Member("message",
      Str("The weather service is temporarily unavailable. Please try again later."))>>

LogEntry(label, status, text, error, timestamp) ==
  [label |-> label, status |-> status, text |-> text,
   message |-> error.message, stack |-> error.stack, timestamp |-> timestamp]

EncodeURIComponent(text) ==
  [i \in 1..Len(text) |->
     IF text[i] = "," THEN "%2C" ELSE IF text[i] = " " THEN "%20" ELSE text[i]]

\* mutant: the location is taken from the request's ?q= when it has one
ForecastCall_FromQuery(apiKey, r) ==
  [method |-> "GET",
   endpoint |-> "https://api.weatherapi.com/v1/forecast.json",
   key |-> apiKey.s,
   q |-> EncodeURIComponent(IF r.q = <<>> THEN Location ELSE r.q),
   days |-> 1, aqi |-> "no", alerts |-> "yes",
   userAgent |-> "BSHS-Weather-Service/1.0"]

\* the fetch of the forecast endpoint
ForecastCall(apiKey, r) ==
  [method |-> "GET",
   endpoint |-> "https://api.weatherapi.com/v1/forecast.json",
   key |-> apiKey.s,
   q |-> EncodeURIComponent(Location),
   days |-> 1, aqi |-> "no", alerts |-> "yes",
   userAgent |-> "BSHS-Weather-Service/1.0"]

\* Response.ok
IsOk(status) == status >= 200 /\ status <= 299

\* mutant: the two lifetimes are swapped
CacheControl_Swapped == "public, s-maxage=600, stale-while-revalidate=300"

CacheControl == "public, s-maxage=300, stale-while-revalidate=600"

\* mutant: the credential is checked before the method
Handler_KeyFirst(method, origin, q) ==
  /\ pc = "idle"
  /\ LET r == [method |-> method, origin |-> origin, q |-> q]
         h == CorsHeaders(r)
         apiKey == ReadEnv(env, "WEATHER_API_KEY")
     IN /\ req' = r
        /\ resHeaders' = h
        /\ IF IsPreflight(r)
             THEN /\ sent' = Append(sent, EndResponse(200, h))
                  /\ pc' = "done"
                  /\ UNCHANGED <<upstreamCalls, log, keyReads>>
             ELSE /\ keyReads' = keyReads + 1
                  /\ IF Falsy(apiKey)
                       THEN /\ log' = Append(log,
                                 LogEntry("WEATHER_API_KEY environment variable not set",
                                          0, <<>>, NoError, ""))
                            /\ sent' = Append(sent, JsonResponse(500, NotConfiguredBody, h))
                            /\ pc' = "done"
                            /\ UNCHANGED upstreamCalls
                       ELSE IF ~MethodAllowed(r)
                         THEN /\ sent' = Append(sent,
                                   JsonResponse(405, MethodNotAllowedBody, h))
                              /\ pc' = "done"
                              /\ UNCHANGED <<upstreamCalls, log>>
                         ELSE /\ upstreamCalls' =
                                   Append(upstreamCalls, ForecastCall(apiKey, r))
                              /\ pc' = "awaitFetch"
                              /\ UNCHANGED <<sent, log>>
  /\ UNCHANGED <<env, weatherResponse, upstreamBody, thrown, pageVars>>

\* the handler from its entry to its first await or return
Handler(method, origin, q) ==
  /\ pc = "idle"
  /\ LET r == [method |-> method, origin |-> origin, q |-> q]
         h == CorsHeaders(r)
         apiKey == ReadEnv(env, "WEATHER_API_KEY")
     IN /\ req' = r
        /\ resHeaders' = h
        /\ IF IsPreflight(r)
             THEN /\ sent' = Append(sent, EndResponse(200, h))
                  /\ pc' = "done"
                  /\ UNCHANGED <<upstreamCalls, log, keyReads>>
             ELSE IF ~MethodAllowed(r)
               THEN /\ sent' = Append(sent, JsonResponse(405, MethodNotAllowedBody, h))
                    /\ pc' = "done"
                    /\ UNCHANGED <<upstreamCalls, log, keyReads>>
               ELSE /\ keyReads' = keyReads + 1
                    /\ IF Falsy(apiKey)
                         THEN /\ log' = Append(log,
                                   LogEntry("WEATHER_API_KEY environment variable not set",
                                            0, <<>>, NoError, ""))
                              /\ sent' = Append(sent, JsonResponse(500, NotConfiguredBody, h))
                              /\ pc' = "done"
                              /\ UNCHANGED upstreamCalls
                         ELSE /\ upstreamCalls' = Append(upstreamCalls, ForecastCall(apiKey, r))
                              /\ pc' = "awaitFetch"
                              /\ UNCHANGED <<sent, log>>
  /\ UNCHANGED <<env, weatherResponse, upstreamBody, thrown, pageVars>>

\* mutant: the catch block logs and returns without answering
Catch_NoResponse(error, timestamp) ==
  /\ thrown' = error
  /\ log' = Append(log, LogEntry("Weather proxy error:", 0, <<>>, error, timestamp))
  /\ sent' = sent
  /\ pc' = "done"

\* the catch block
Catch(error, timestamp) ==
  /\ thrown' = error
  /\ log' = Append(log, LogEntry("Weather proxy error:", 0, <<>>, error, timestamp))
  /\ sent' = Append(sent, JsonResponse(500, UnavailableBody(error), resHeaders))
  /\ pc' = "done"

\* mutant: the cache header is set as soon as the upstream answers 2xx,
\* before its body is parsed
FetchResolves_CacheEarly(status) ==
  /\ pc = "awaitFetch"
  /\ weatherResponse' = [status |-> status, ok |-> IsOk(status)]
  /\ pc' = IF IsOk(status) THEN "awaitJson" ELSE "awaitText"
  /\ resHeaders' = IF IsOk(status)
                     THEN SetHeader(resHeaders, "Cache-Control", CacheControl)
                     ELSE resHeaders
  /\ UNCHANGED <<env, req, sent, upstreamCalls, upstreamBody, thrown,
                 log, keyReads, pageVars>>

\* await fetch(...) resolves with the upstream's status line
FetchResolves(status) ==
  /\ pc = "awaitFetch"
  /\ weatherResponse' = [status |-> status, ok |-> IsOk(status)]
  /\ pc' = IF IsOk(status) THEN "awaitJson" ELSE "awaitText"
  /\ UNCHANGED <<env, req, resHeaders, sent, upstreamCalls, upstreamBody, thrown,
                 log, keyReads, pageVars>>

\* await fetch(...) rejects
FetchRejects(error, timestamp) ==
  /\ pc = "awaitFetch"
  /\ Catch(error, timestamp)
  /\ UNCHANGED <<env, req, resHeaders, upstreamCalls, weatherResponse, upstreamBody,
                 keyReads, pageVars>>

\* mutant: every upstream failure is answered 502
TextResolves_Always502(body) ==
  /\ pc = "awaitText"
  /\ upstreamBody' = body
  /\ log' = Append(log, LogEntry("Weather API error:", weatherResponse.status, body,
                                 NoError, ""))
  /\ sent' = Append(sent, JsonResponse(502, UpstreamErrorBody(502, body), resHeaders))
  /\ pc' = "done"
  /\ UNCHANGED <<env, req, resHeaders, upstreamCalls, weatherResponse, thrown,
                 keyReads, pageVars>>

\* await weatherResponse.text() resolves: log it, relay the status
TextResolves(body) ==
  /\ pc = "awaitText"
  /\ upstreamBody' = body
  /\ log' = Append(log, LogEntry("Weather API error:", weatherResponse.status, body,
                                 NoError, ""))
  /\ sent' = Append(sent, JsonResponse(weatherResponse.status,
                                       UpstreamErrorBody(weatherResponse.status, body),
                                       resHeaders))
  /\ pc' = "done"
  /\ UNCHANGED <<env, req, resHeaders, upstreamCalls, weatherResponse, thrown,
                 keyReads, pageVars>>

\* await weatherResponse.text() rejects: the body could not be read
TextRejects(error, timestamp) ==
  /\ pc = "awaitText"
  /\ Catch(error, timestamp)
  /\ UNCHANGED <<env, req, resHeaders, upstreamCalls, weatherResponse, upstreamBody,
                 keyReads, pageVars>>

\* await weatherResponse.json() resolves: cache header, relay the data
JsonResolves(body) ==
  /\ pc = "awaitJson"
  /\ JsonParse(body).ok
  /\ upstreamBody' = body
  /\ resHeaders' = SetHeader(resHeaders, "Cache-Control", CacheControl)
  /\ sent' = Append(sent, JsonResponse(200, JsonParse(body).value, resHeaders'))
  /\ pc' = "done"
  /\ UNCHANGED <<env, req, upstreamCalls, weatherResponse, thrown, log, keyReads,
                 pageVars>>

\* await weatherResponse.json() rejects: the body is not JSON
JsonParseFails(body, timestamp) ==
  /\ pc = "awaitJson"
  /\ ~JsonParse(body).ok
  /\ upstreamBody' = body
  /\ Catch(SyntaxError, timestamp)
  /\ UNCHANGED <<env, req, resHeaders, upstreamCalls, weatherResponse, keyReads,
                 pageVars>>

\* await weatherResponse.json() rejects: the body could not be read
JsonReadFails(error, timestamp) ==
  /\ pc = "awaitJson"
  /\ Catch(error, timestamp)
  /\ UNCHANGED <<env, req, resHeaders, upstreamCalls, weatherResponse, upstreamBody,
                 keyReads, pageVars>>

NoRequest == [method |-> "", origin |-> "", q |-> <<>>]
NoResponse == [status |-> 0, ok |-> FALSE]

ProxyInit ==
  /\ env \in Envs
  /\ req = NoRequest
  /\ pc = "idle"
  /\ resHeaders = {}
  /\ sent = <<>>
  /\ upstreamCalls = <<>>
  /\ weatherResponse = NoResponse
  /\ upstreamBody = <<>>
  /\ thrown = NoError
  /\ log = <<>>
  /\ keyReads = 0

PageIdle ==
  /\ condition = <<>>
  /\ rendered = [icon |-> "", statusText |-> <<>>, suspensionInfo |-> ""]
  /\ pending = {}
  /\ started = 0
  /\ pageLog = <<>>
  /\ fallback = {}
  /\ outcome = {}
  /\ renderedBy = 0
  /\ lastDone = [id |-> 0, outcome |-> "", hadContent |-> FALSE]
  /\ weatherModalOpen = FALSE
  /\ weatherModalClass = {}
  /\ chatbotOpen = FALSE
  /\ chatbotClass = {}
  /\ bannerDismissed = FALSE
  /\ bannerClass = {}
  /\ bannerTimer = "idle"

Init == ProxyInit /\ PageIdle

Next ==
  \/ \E m \in Methods, o \in Origins, q \in Queries : Handler(m, o, q)
  \/ \E s \in UpstreamStatuses : FetchResolves(s)
  \/ \E e \in NetworkErrors, ts \in Timestamps : FetchRejects(e, ts)
  \/ \E b \in UpstreamBodies : TextResolves(b)
  \/ \E e \in NetworkErrors, ts \in Timestamps : TextRejects(e, ts)
  \/ \E b \in UpstreamBodies : JsonResolves(b)
  \/ \E b \in UpstreamBodies, ts \in Timestamps : JsonParseFails(b, ts)
  \/ \E e \in NetworkErrors, ts \in Timestamps : JsonReadFails(e, ts)

Spec == Init /\ [][Next]_vars

\* the upstream call settles: the promise the handler awaits resolves or rejects
UpstreamSettles ==
  \/ \E st \in UpstreamStatuses : FetchResolves(st)
  \/ \E e \in NetworkErrors, ts \in Timestamps : FetchRejects(e, ts)
  \/ \E b \in UpstreamBodies : TextResolves(b)
  \/ \E e \in NetworkErrors, ts \in Timestamps : TextRejects(e, ts)
  \/ \E b \in UpstreamBodies : JsonResolves(b)
  \/ \E b \in UpstreamBodies, ts \in Timestamps : JsonParseFails(b, ts)
  \/ \E e \in NetworkErrors, ts \in Timestamps : JsonReadFails(e, ts)

\* the handler under the proviso that what it awaits eventually settles
FairSpec == Spec /\ WF_vars(UpstreamSettles)

----------------------------------------------------------------------------
(* Properties of the proxy handler, checked under Spec.                     *)

KeyConfigured == \E p \in env : p[1] = "WEATHER_API_KEY" /\ p[2] # ""

Keys(body) == {body[i].k : i \in DOMAIN body}
Field(body, k) == body[CHOOSE i \in DOMAIN body : body[i].k = k].v

\* the handler has answered once
Answered == pc = "done" /\ Len(sent) = 1

\* the upstream answered with a status outside 200..299
UpstreamFailed ==
  /\ weatherResponse # NoResponse
  /\ (weatherResponse.status < 200 \/ weatherResponse.status > 299)

\* what must stay on the server: the secret, the exception, the upstream's text
SensitiveStrings ==
  ({p[2] : p \in env} \cup {thrown.message, thrown.stack}
     \cup {upstreamBody[i].s : i \in {j \in DOMAIN upstreamBody :
                                        upstreamBody[j].t \in {"str", "raw"}}})
  \ {""}

Leaks(resp) ==
  \E i \in DOMAIN resp.body :
    resp.body[i].v.t \in {"str", "raw"} /\ resp.body[i].v.s \in SensitiveStrings

CorsTriple ==
  {<<"Access-Control-Allow-Origin", "https://bshs-es.vercel.app">>,
   <<"Access-Control-Allow-Methods", "GET, OPTIONS">>,
   <<"Access-Control-Allow-Headers", "Content-Type">>}

CorsNames == {"Access-Control-Allow-Origin", "Access-Control-Allow-Methods",
              "Access-Control-Allow-Headers"}

\* C1: a request whose method is neither GET nor OPTIONS is answered 405 with a
\* JSON body of the fields error and message, and no upstream call is issued,
\* whatever the key configuration.
C1_NonGetRejected ==
  (pc # "idle" /\ req.method \notin {"GET", "OPTIONS"}) =>
    /\ Answered
    /\ sent[1].status = 405
    /\ sent[1].hasBody
    /\ Keys(sent[1].body) = {"error", "message"}
    /\ Field(sent[1].body, "error") = Str("Method not allowed")
    /\ Field(sent[1].body, "message") = Str("Only GET requests are supported")
    /\ upstreamCalls = <<>>

C1_Witness ==
  /\ pc = "done"
  /\ req.method = "DELETE"
  /\ KeyConfigured
  /\ Len(sent) = 1

\* C2: with WEATHER_API_KEY unset or empty, a GET is answered 500 with the
\* 'not properly configured' body and no upstream call is issued.
C2_MissingKeyIs500 ==
  (pc # "idle" /\ req.method = "GET" /\ ~KeyConfigured) =>
    /\ Answered
    /\ sent[1].status = 500
    /\ sent[1].hasBody
    /\ Keys(sent[1].body) = {"error", "message"}
    /\ Field(sent[1].body, "error") = Str("Server configuration error")
    /\ Field(sent[1].body, "message") = Str("Weather service is not properly configured")
    /\ upstreamCalls = <<>>

C2_Witness ==
  /\ pc = "done"
  /\ req.method = "GET"
  /\ env = {<<"WEATHER_API_KEY", "">>}
  /\ Len(sent) = 1

\* C3: OPTIONS is answered 200 with an empty body before the credential is
\* read: the key is never read, nothing is logged, no upstream call is made,
\* so the answer is the same with the key configured or absent.
C3_PreflightShortCircuits ==
  (pc # "idle" /\ req.method = "OPTIONS") =>
    /\ Answered
    /\ sent[1].status = 200
    /\ ~sent[1].hasBody
    /\ sent[1].body = <<>>
    /\ keyReads = 0
    /\ log = <<>>
    /\ upstreamCalls = <<>>

C3_Witness ==
  /\ pc = "done"
  /\ req.method = "OPTIONS"
  /\ env = {}
  /\ Len(sent) = 1

\* C4 as stated: whenever the upstream answered a non-2xx status S, the
\* caller gets status S with the generic body {error, message, status: S} and
\* none of the upstream's text, also when reading the upstream's error body
\* failed.
C4_AsStated ==
  (pc = "done" /\ UpstreamFailed) =>
    /\ Len(sent) = 1
    /\ sent[1].status = weatherResponse.status
    /\ sent[1].body =
         <<Member("error", Str("Weather API error")),
           Member("message", Str("Unable to fetch weather data from provider")),
           Member("status", Num(weatherResponse.status))>>
    /\ ~Leaks(sent[1])

\* C4 amended: when the upstream answered a non-2xx status S and its error
\* body was read, the caller gets status S with the generic body {error,
\* message, status: S}; when reading that body failed, the caller gets 500
\* with the generic 'temporarily unavailable' body. In neither case does the
\* response carry the upstream's text.
C4_UpstreamStatusRelayed ==
  (pc = "done" /\ UpstreamFailed) =>
    /\ Len(sent) = 1
    /\ ~Leaks(sent[1])
    /\ IF thrown = NoError
         THEN /\ sent[1].status = weatherResponse.status
              /\ sent[1].body =
                   <<Member("error", Str("Weather API error")),
                     Member("message", Str("Unable to fetch weather data from provider")),
                     Member("status", Num(weatherResponse.status))>>
         ELSE /\ sent[1].status = 500
              /\ sent[1].body =
                   <<Member("error", Str("Failed to fetch weather data")),
                     Member("message",
                       Str("The weather service is temporarily unavailable. Please try again later."))>>

C4_Witness ==
  /\ pc = "done"
  /\ weatherResponse.status = 403
  /\ upstreamBody = ProviderError
  /\ thrown = NoError
  /\ Len(sent) = 1

\* the upstream answered 200 and its body was read and parsed
UpstreamSucceeded200 ==
  /\ pc = "done"
  /\ weatherResponse.status = 200
  /\ thrown = NoError

\* C5 as stated: when the upstream answers 200 with a valid JSON body, the
\* caller gets 200 with exactly that body text, unmodified, and the
\* Cache-Control header.
C5_AsStated ==
  UpstreamSucceeded200 =>
    /\ Len(sent) = 1
    /\ sent[1].status = 200
    /\ sent[1].hasBody
    /\ JsonStringify(sent[1].body) = upstreamBody
    /\ <<"Cache-Control", "public, s-maxage=300, stale-while-revalidate=600">>
         \in sent[1].headers

\* C5 amended: when the upstream answers 200 with a valid JSON body, the
\* caller gets 200 with the Cache-Control header and a body that is the
\* re-serialisation of the parsed upstream body: it denotes the same JSON
\* value, and is the same text exactly when the upstream's text is already
\* in JSON.stringify's form (no whitespace, no duplicate keys, canonical
\* numbers).
C5_SuccessRelayed ==
  UpstreamSucceeded200 =>
    /\ Len(sent) = 1
    /\ sent[1].status = 200
    /\ sent[1].hasBody
    /\ JsonParse(upstreamBody).ok
    /\ JsonParse(JsonStringify(sent[1].body)).value = JsonParse(upstreamBody).value
    /\ (JsonStringify(sent[1].body) = upstreamBody)
         <=> (upstreamBody = JsonStringify(JsonParse(upstreamBody).value))
    /\ {p \in sent[1].headers : p[1] = "Cache-Control"} =
         {<<"Cache-Control", "public, s-maxage=300, stale-while-revalidate=600">>}

C5_Witness ==
  /\ UpstreamSucceeded200
  /\ upstreamBody = ForecastSpaced
  /\ Len(sent) = 1

\* the outbound fetch rejected
FetchRejected == pc = "done" /\ weatherResponse = NoResponse /\ thrown # NoError

\* the upstream's 2xx body was not JSON
ParseFailed ==
  /\ pc = "done"
  /\ weatherResponse # NoResponse
  /\ weatherResponse.status >= 200 /\ weatherResponse.status <= 299
  /\ thrown.name = "SyntaxError"

\* C6: when the fetch rejects or the upstream's 2xx body is not JSON, the
\* caller gets 500 with the fixed 'temporarily unavailable' body; the
\* exception's message and stack are in the server's log and not in the
\* response.
C6_ExceptionIs500 ==
  (FetchRejected \/ ParseFailed) =>
    /\ Len(sent) = 1
    /\ sent[1].status = 500
    /\ sent[1].body =
         <<Member("error", Str("Failed to fetch weather data")),
           Member("message",
             Str("The weather service is temporarily unavailable. Please try again later."))>>
    /\ \A i \in DOMAIN sent[1].body :
         sent[1].body[i].v.s \notin {thrown.message, thrown.stack}
    /\ Len(log) = 1
    /\ log[1].message = thrown.message
    /\ log[1].stack = thrown.stack

C6_Witness ==
  /\ ParseFailed
  /\ upstreamBody = HtmlError
  /\ Len(sent) = 1

\* the body an error answer has, from what the caller may know: the method,
\* whether the key is configured, whether an exception was caught, the
\* upstream's status
PublicErrorBody ==
  IF req.method \notin {"GET", "OPTIONS"}
    THEN <<Member("error", Str("Method not allowed")),
           Member("message", Str("Only GET requests are supported"))>>
  ELSE IF ~KeyConfigured
    THEN <<Member("error", Str("Server configuration error")),
           Member("message", Str("Weather service is not properly configured"))>>
  ELSE IF thrown # NoError
    THEN <<Member("error", Str("Failed to fetch weather data")),
           Member("message",
             Str("The weather service is temporarily unavailable. Please try again later."))>>
  ELSE <<Member("error", Str("Weather API error")),
         Member("message", Str("Unable to fetch weather data from provider")),
         Member("status", Num(weatherResponse.status))>>

\* an answer that is neither the preflight's nor the success relay
ErrorAnswered ==
  /\ pc = "done"
  /\ req.method # "OPTIONS"
  /\ ~(weatherResponse # NoResponse /\ weatherResponse.ok /\ thrown = NoError)

\* C7: on every error path the response body is a constant of the path: it
\* is the same for every value of the secret, every upstream error text and
\* every exception, and holds none of them.
C7_ErrorBodiesConstant ==
  ErrorAnswered =>
    /\ Len(sent) = 1
    /\ sent[1].body = PublicErrorBody
    /\ ~Leaks(sent[1])

C7_Witness ==
  /\ ErrorAnswered
  /\ env = {<<"WEATHER_API_KEY", "key-two">>}
  /\ weatherResponse.status = 500
  /\ upstreamBody = HtmlError
  /\ Len(sent) = 1

\* C8: every response carries the three CORS headers with their fixed
\* values, whatever the request.
C8_CorsOnEveryResponse ==
  /\ pc = "done" => Len(sent) >= 1
  /\ \A i \in DOMAIN sent :
       {p \in sent[i].headers : p[1] \in CorsNames} = CorsTriple

C8_Witness ==
  /\ pc = "done"
  /\ req.origin = "https://evil.example"
  /\ thrown # NoError
  /\ Len(sent) = 1

\* C9: an invocation issues at most one outbound GET, exactly one when the
\* method is GET and the key is configured, always for the hardcoded
\* location whatever the request's parameters, and none is added after an
\* upstream failure or exception.
C9_SingleShot ==
  /\ Len(upstreamCalls) <= 1
  /\ pc # "idle" =>
       Len(upstreamCalls) = IF req.method = "GET" /\ KeyConfigured THEN 1 ELSE 0
  /\ \A i \in DOMAIN upstreamCalls :
       /\ upstreamCalls[i].method = "GET"
       /\ upstreamCalls[i].endpoint = "https://api.weatherapi.com/v1/forecast.json"
       /\ upstreamCalls[i].q =
            <<"Balangkayan", "%2C", "Eastern", "%20", "Samar", "%2C", "Philippines">>

C9_Witness ==
  /\ pc = "done"
  /\ req.q = <<"Manila">>
  /\ UpstreamFailed
  /\ Len(upstreamCalls) = 1

\* C14: the checks run in the order preflight, method, credential, upstream
\* call, and an earlier check's outcome is never masked by a later one: a
\* request that is neither GET nor OPTIONS gets 405 also with the key absent,
\* and for a request that is not a GET the secret is never read and no
\* configuration error is logged; the upstream is called only after the
\* method and the credential passed.
C14_ChecksInOrder ==
  pc # "idle" =>
    /\ req.method # "GET" =>
         /\ keyReads = 0
         /\ log = <<>>
         /\ upstreamCalls = <<>>
         /\ Answered
         /\ sent[1].status = IF req.method = "OPTIONS" THEN 200 ELSE 405
    /\ req.method = "GET" => keyReads = 1
    /\ (req.method = "GET" /\ ~KeyConfigured) =>
         /\ Answered
         /\ sent[1].status = 500
         /\ Len(log) = 1
         /\ log[1].label = "WEATHER_API_KEY environment variable not set"
    /\ upstreamCalls # <<>> => (req.method = "GET" /\ KeyConfigured /\ keyReads = 1)

C14_Witness ==
  /\ pc = "done"
  /\ req.method = "POST"
  /\ env = {}
  /\ Len(sent) = 1
  /\ sent[1].status = 405

HasCacheControl(resp) == \E p \in resp.headers : p[1] = "Cache-Control"

\* the answer is the 200 relay of an upstream body that was read and parsed
SuccessRelay(resp) ==
  /\ resp.status = 200
  /\ resp.hasBody
  /\ weatherResponse # NoResponse
  /\ weatherResponse.status >= 200 /\ weatherResponse.status <= 299
  /\ thrown = NoError
  /\ JsonParse(upstreamBody).ok
  /\ resp.body = JsonParse(upstreamBody).value

\* C15: a response carries Cache-Control if and only if it is the 200
\* success relay of a parsed upstream body: the preflight 200, the 405, the
\* missing-key 500, the relayed upstream error and the exception 500 (the
\* upstream's 2xx body failing to parse included) carry none.
C15_CacheOnlyOnSuccess ==
  \A i \in DOMAIN sent :
    /\ HasCacheControl(sent[i]) <=> SuccessRelay(sent[i])
    /\ HasCacheControl(sent[i]) =>
         <<"Cache-Control", "public, s-maxage=300, stale-while-revalidate=600">>
           \in sent[i].headers

C15_Witness ==
  /\ ParseFailed
  /\ upstreamBody = Truncated
  /\ Len(sent) = 1
  /\ sent[1].status = 500
  /\ ~HasCacheControl(sent[1])

Awaiting == pc \in {"awaitFetch", "awaitText", "awaitJson"}

\* C16: an invocation sends exactly one response, never two and never none,
\* provided what it awaits from the upstream settles; while the upstream has
\* not settled nothing is sent, and a response that follows an upstream call
\* follows the upstream's answer or its failure (there is no timeout and no
\* cancellation), so a call that never settles leaves the invocation without
\* a response.
C16_ExactlyOneResponse ==
  /\ [](Len(sent) <= 1)
  /\ [](pc = "done" <=> Len(sent) = 1)
  /\ [](Awaiting => sent = <<>>)
  /\ []((pc = "done" /\ upstreamCalls # <<>>) =>
         (weatherResponse # NoResponse \/ thrown \in NetworkErrors))
  /\ (pc # "idle") ~> (pc = "done" /\ Len(sent) = 1)

C16_Witness ==
  /\ pc = "done"
  /\ Len(sent) = 1
  /\ Len(upstreamCalls) = 1
  /\ weatherResponse # NoResponse

----------------------------------------------------------------------------
(* The page controller's weather display. Text is a sequence of characters. *)

MaxCalls == 2

UpperCase == <<"A", "B", "C", "D", "E", "F", "G", "H", "I", "J", "K", "L", "M",
               "N", "O", "P", "Q", "R", "S", "T", "U", "V", "W", "X", "Y", "Z">>
LowerCase == <<"a", "b", "c", "d", "e", "f", "g", "h", "i", "j", "k", "l", "m",
               "n", "o", "p", "q", "r", "s", "t", "u", "v", "w", "x", "y", "z">>

\* condition.toLowerCase()
ToLowerCase(text) ==
  [i \in 1..Len(text) |->
     IF \E j \in 1..26 : UpperCase[j] = text[i]
       THEN LowerCase[CHOOSE j \in 1..26 : UpperCase[j] = text[i]]
       ELSE text[i]]

\* text.includes(keyword)
Includes(text, keyword) ==
  \E i \in 0..(Len(text) - Len(keyword)) :
    SubSeq(text, i + 1, i + Len(keyword)) = keyword

PartlyCloudyText == <<"P", "a", "r", "t", "l", "y", " ", "c", "l", "o", "u", "d", "y">>
PartlyCloudyCaps == <<"P", "A", "R", "T", "L", "Y", " ", "C", "L", "O", "U", "D", "Y">>
CloudyText == <<"C", "l", "o", "u", "d", "y">>
OvercastText == <<"O", "v", "e", "r", "c", "a", "s", "t">>
SunnyText == <<"S", "u", "n", "n", "y">>
ClearText == <<"C", "l", "e", "a", "r">>
PartlySunnyText == <<"P", "a", "r", "t", "l", "y", " ", "s", "u", "n", "n", "y">>

\* condition texts the provider sends, in mixed case
ConditionTexts == {PartlyCloudyText, PartlyCloudyCaps, CloudyText, OvercastText, SunnyText, ClearText, PartlySunnyText}

KeywordCloudy == <<"c", "l", "o", "u", "d", "y">>
KeywordPartly == <<"p", "a", "r", "t", "l", "y">>

\* the entry used when no keyword group matches
DefaultWeatherInfo(cond) ==
  [icon |-> "default", statusText |-> cond, suspensionInfo |-> "default"]

\* the keyword scan: the if / else-if chain over conditionLower
WeatherInfo(cond) ==
  LET conditionLower == ToLowerCase(cond)
  IN IF Includes(conditionLower, KeywordCloudy)
       THEN [icon |-> "cloud", statusText |-> cond, suspensionInfo |-> "cloudy"]
     ELSE IF Includes(conditionLower, KeywordPartly)
       THEN [icon |-> "sun behind cloud", statusText |-> cond,
             suspensionInfo |-> "partly cloudy"]
     ELSE DefaultWeatherInfo(cond)

\* mutant: a call is skipped while another is in flight (an isUpdating guard)
UpdateWeatherInfo_Guarded ==
  /\ pending = {}
  /\ started < MaxCalls
  /\ started' = started + 1
  /\ pending' = pending \cup {started + 1}
  /\ UNCHANGED <<condition, rendered, pageLog, fallback, outcome, renderedBy, lastDone,
                 widgetVars, proxyVars>>

\* updateWeatherInfo() is called: at load, and by the interval timer
UpdateWeatherInfo ==
  /\ started < MaxCalls
  /\ started' = started + 1
  /\ pending' = pending \cup {started + 1}
  /\ UNCHANGED <<condition, rendered, pageLog, fallback, outcome, renderedBy, lastDone,
                 widgetVars, proxyVars>>

\* a call's fetch of /api/weather fails: warn, fall back to the direct API call
ProxyUnreachable(id) ==
  /\ id \in pending \ fallback
  /\ fallback' = fallback \cup {id}
  /\ pageLog' = Append(pageLog,
       [level |-> "warn",
        text |-> "Using fallback direct API call. Deploy serverless function for production."])
  /\ UNCHANGED <<condition, rendered, pending, started, outcome, renderedBy, lastDone,
                 widgetVars, proxyVars>>

\* a call's forecast arrives: map the condition, render it
WeatherArrives(id, cond) ==
  /\ id \in pending
  /\ pending' = pending \ {id}
  /\ fallback' = fallback \ {id}
  /\ condition' = cond
  /\ rendered' = WeatherInfo(cond)
  /\ outcome' = outcome \cup {<<id, "rendered">>}
  /\ renderedBy' = id
  /\ lastDone' = [id |-> id, outcome |-> "rendered", hadContent |-> renderedBy # 0]
  /\ UNCHANGED <<started, pageLog, widgetVars, proxyVars>>

\* mutant: the catch block also writes an error notice into the DOM targets
WeatherFails_ShowsError(id) ==
  /\ id \in pending
  /\ pending' = pending \ {id}
  /\ fallback' = fallback \ {id}
  /\ pageLog' = Append(pageLog, [level |-> "error", text |-> "Weather fetch error:"])
  /\ outcome' = outcome \cup {<<id, "failed">>}
  /\ lastDone' = [id |-> id, outcome |-> "failed", hadContent |-> renderedBy # 0]
  /\ rendered' = [icon |-> "warning", statusText |-> <<>>, suspensionInfo |-> "unavailable"]
  /\ UNCHANGED <<condition, started, renderedBy, widgetVars, proxyVars>>

\* a call fails: the catch block logs it
WeatherFails(id) ==
  /\ id \in pending
  /\ pending' = pending \ {id}
  /\ fallback' = fallback \ {id}
  /\ pageLog' = Append(pageLog, [level |-> "error", text |-> "Weather fetch error:"])
  /\ outcome' = outcome \cup {<<id, "failed">>}
  /\ lastDone' = [id |-> id, outcome |-> "failed", hadContent |-> renderedBy # 0]
  /\ UNCHANGED <<condition, rendered, started, renderedBy, widgetVars, proxyVars>>

\* element.classList.toggle(name)
ClassToggle(classList, name) ==
  IF name \in classList THEN classList \ {name} ELSE classList \cup {name}

\* click on the weather control: the modal opens
OpenWeatherModal ==
  /\ weatherModalOpen' = TRUE
  /\ weatherModalClass' = weatherModalClass \cup {"active"}
  /\ UNCHANGED <<chatbotOpen, chatbotClass, bannerDismissed, bannerClass, bannerTimer,
                 weatherVars, proxyVars>>

\* click on the modal's close control
CloseWeatherModal ==
  /\ weatherModalOpen' = FALSE
  /\ weatherModalClass' = weatherModalClass \ {"active"}
  /\ UNCHANGED <<chatbotOpen, chatbotClass, bannerDismissed, bannerClass, bannerTimer,
                 weatherVars, proxyVars>>

\* click on the chatbot control
ToggleChatbot ==
  /\ chatbotOpen' = ~chatbotOpen
  /\ chatbotClass' = ClassToggle(chatbotClass, "active")
  /\ UNCHANGED <<weatherModalOpen, weatherModalClass, bannerDismissed, bannerClass,
                 bannerTimer, weatherVars, proxyVars>>

\* click on the banner's dismiss control: hide it, arm the 30-minute timer
DismissBanner ==
  /\ "hidden" \notin bannerClass
  /\ bannerDismissed' = TRUE
  /\ bannerClass' = bannerClass \cup {"hidden"}
  /\ bannerTimer' = "armed"
  /\ UNCHANGED <<weatherModalOpen, weatherModalClass, chatbotOpen, chatbotClass,
                 weatherVars, proxyVars>>

\* mutant: the timer's callback resets another widget's flag
BannerResetTimer_WrongFlag ==
  /\ bannerTimer = "armed"
  /\ chatbotOpen' = FALSE
  /\ bannerTimer' = "fired"
  /\ UNCHANGED <<weatherModalOpen, weatherModalClass, bannerDismissed, chatbotClass,
                 bannerClass, weatherVars, proxyVars>>

\* the timer fires: () => { bannerDismissed = false; }
BannerResetTimer ==
  /\ bannerTimer = "armed"
  /\ bannerDismissed' = FALSE
  /\ bannerTimer' = "fired"
  /\ UNCHANGED <<weatherModalOpen, weatherModalClass, chatbotOpen, chatbotClass,
                 bannerClass, weatherVars, proxyVars>>

PageInit ==
  /\ env = {}
  /\ req = NoRequest
  /\ pc = "idle"
  /\ resHeaders = {}
  /\ sent = <<>>
  /\ upstreamCalls = <<>>
  /\ weatherResponse = NoResponse
  /\ upstreamBody = <<>>
  /\ thrown = NoError
  /\ log = <<>>
  /\ keyReads = 0
  /\ PageIdle

PageNext ==
  \/ UpdateWeatherInfo
  \/ \E id \in 1..MaxCalls : ProxyUnreachable(id)
  \/ \E id \in 1..MaxCalls, c \in ConditionTexts : WeatherArrives(id, c)
  \/ \E id \in 1..MaxCalls : WeatherFails(id)
  \/ OpenWeatherModal
  \/ CloseWeatherModal
  \/ ToggleChatbot
  \/ DismissBanner
  \/ BannerResetTimer

PageSpec == PageInit /\ [][PageNext]_vars

----------------------------------------------------------------------------
(* Properties of the page's condition mapping, checked under PageSpec.      *)

\* the text the claim is about
KeywordPartlyCloudy == <<"p", "a", "r", "t", "l", "y", " ", "c", "l", "o", "u", "d", "y">>

\* C10: the keyword scan is first-match-wins in declared order: a rendered
\* condition text containing "partly cloudy" shows the partly-cloudy entry,
\* not the cloudy entry, and a text no keyword group matches shows the
\* default entry.
C10_AsStated ==
  condition # <<>> =>
    /\ Includes(ToLowerCase(condition), KeywordPartlyCloudy) =>
         /\ rendered.icon = "sun behind cloud"
         /\ rendered.suspensionInfo = "partly cloudy"
    /\ (~Includes(ToLowerCase(condition), KeywordCloudy)
          /\ ~Includes(ToLowerCase(condition), KeywordPartly)) =>
         rendered.icon = "default"

----------------------------------------------------------------------------
(* Properties of the page's weather refresh, checked under PageSpec.        *)

ErrorEvents(l) == Len(SelectSeq(l, LAMBDA entry : entry.level = "error"))

C12_NoInFlightGuard ==
  /\ [](started < MaxCalls => ENABLED UpdateWeatherInfo)
  /\ [][\A id \in pending :
          (<<id, "rendered">> \in outcome' /\ <<id, "rendered">> \notin outcome) =>
            /\ renderedBy' = id
            /\ rendered' = WeatherInfo(condition')]_vars

\* two calls were outstanding at once and the earlier one's forecast came
\* last: it is the one in the DOM
C12_Witness ==
  /\ renderedBy # 0
  /\ \E j \in 1..started : j > renderedBy /\ <<j, "rendered">> \in outcome
  /\ rendered = WeatherInfo(condition)

----------------------------------------------------------------------------
(* Properties of the page's widgets, checked under PageSpec.                *)

ModalAgrees == weatherModalOpen <=> "active" \in weatherModalClass
ChatbotAgrees == chatbotOpen <=> "active" \in chatbotClass
BannerAgrees == bannerDismissed <=> "hidden" \in bannerClass

\* a step of the weather refresh: a call starts, falls back, arrives or fails
WeatherStep == weatherVars' # weatherVars

====
